---- MODULE Spec2Model ----
(***************************************************************************)
(* Model of the M3UPT console TUI (src/index.ts): the playlist parser      *)
(* parseM3U, the group derivation computeGroups, the filter applyFilter,   *)
(* the asynchronous loadPlaylist and the key handlers that drive them.     *)
(*                                                                         *)
(* A JavaScript string is a sequence of one-character strings; a playlist  *)
(* text is the sequence of its physical lines (what text.split(/\r?\n/)    *)
(* returns, which is never the empty sequence).                            *)
(***************************************************************************)
EXTENDS Integers, Sequences, FiniteSets, TLC

\* ------------------------------------------------------------------------
\* JavaScript values

\* The value `undefined`: a one-element sequence whose element is not a
\* character, so it differs from every string.
undefined == <<"undefined">>

\* A JavaScript number that is an integer or NaN.
Num(n) == [nan |-> FALSE, val |-> n]

NaN == [nan |-> TRUE, val |-> 0]

\* a + b on numbers
jsAdd(a, b) == IF a.nan \/ b.nan THEN NaN ELSE Num(a.val + b.val)

\* a % b on numbers: NaN for a zero divisor, the sign of the dividend otherwise
jsMod(a, b) ==
  IF a.nan \/ b.nan \/ b.val = 0 THEN NaN
  ELSE LET d == IF b.val < 0 THEN 0 - b.val ELSE b.val
       IN  IF a.val < 0 THEN Num(0 - ((0 - a.val) % d)) ELSE Num(a.val % d)

\* arr[idx]: undefined when idx is NaN or out of range
jsIndex(arr, idx) ==
  IF ~idx.nan /\ idx.val >= 0 /\ idx.val < Len(arr) THEN arr[idx.val + 1]
  ELSE undefined

\* ------------------------------------------------------------------------
\* Strings

UpperCase == <<"A","B","C","D","E","F","G","H","I","J","K","L","M",
               "N","O","P","Q","R","S","T","U","V","W","X","Y","Z">>

LowerCase == <<"a","b","c","d","e","f","g","h","i","j","k","l","m",
               "n","o","p","q","r","s","t","u","v","w","x","y","z">>

Digits == <<"0","1","2","3","4","5","6","7","8","9">>

Range(s) == {s[k] : k \in 1..Len(s)}

IndexIn(s, c) == CHOOSE k \in 1..Len(s) : s[k] = c

\* the characters String.prototype.trim removes
Whitespace == {" ", "\t", "\r"}

lowerChar(c) == IF c \in Range(UpperCase) THEN LowerCase[IndexIn(UpperCase, c)] ELSE c

toLowerCase(s) == [k \in 1..Len(s) |-> lowerChar(s[k])]

RECURSIVE trimStart(_)
trimStart(s) ==
  IF s # <<>> /\ Head(s) \in Whitespace THEN trimStart(Tail(s)) ELSE s

RECURSIVE trimEnd(_)
trimEnd(s) ==
  IF s # <<>> /\ s[Len(s)] \in Whitespace THEN trimEnd(SubSeq(s, 1, Len(s) - 1)) ELSE s

trim(s) == trimEnd(trimStart(s))

startsWith(s, p) == Len(s) >= Len(p) /\ SubSeq(s, 1, Len(p)) = p

includes(s, q) == \E k \in 0..(Len(s) - Len(q)) : SubSeq(s, k + 1, k + Len(q)) = q

\* ------------------------------------------------------------------------
\* parseM3U

EXTINF == <<"#","E","X","T","I","N","F">>

\* the key class [a-zA-Z0-9_-] of attrRegex
IsKeyChar(c) == c \in Range(UpperCase) \cup Range(LowerCase) \cup Range(Digits) \cup {"_", "-"}

\* first position >= p of line that is not a key character (Len+1 if none)
RECURSIVE KeyEnd(_, _)
KeyEnd(line, p) ==
  IF p <= Len(line) /\ IsKeyChar(line[p]) THEN KeyEnd(line, p + 1) ELSE p

\* first position >= p of line holding a double quote (Len+1 if none)
RECURSIVE QuoteAt(_, _)
QuoteAt(line, p) ==
  IF p <= Len(line) /\ line[p] # "\"" THEN QuoteAt(line, p + 1) ELSE p

\* attrRegex matches at position p: a non-empty run of key characters,
\* then =", then characters other than ", then "
MatchesAt(line, p) ==
  LET e == KeyEnd(line, p)
  IN  /\ p <= Len(line)
      /\ e > p
      /\ e + 1 <= Len(line)
      /\ line[e] = "="
      /\ line[e + 1] = "\""
      /\ QuoteAt(line, e + 2) <= Len(line)

\* the first value of a key kept, later ones dropped
attrsSet_KeepFirst(attrs, k, v) ==
  IF \E n \in 1..Len(attrs) : attrs[n][1] = k THEN attrs ELSE Append(attrs, <<k, v>>)

\* attrs[k] = v: an existing key keeps its place, a new key is appended
attrsSet(attrs, k, v) ==
  IF \E n \in 1..Len(attrs) : attrs[n][1] = k
  THEN [n \in 1..Len(attrs) |-> IF attrs[n][1] = k THEN <<k, v>> ELSE attrs[n]]
  ELSE Append(attrs, <<k, v>>)

\* attrs[k]: undefined for a missing key
attrsGet(attrs, k) ==
  IF \E n \in 1..Len(attrs) : attrs[n][1] = k
  THEN attrs[CHOOSE n \in 1..Len(attrs) : attrs[n][1] = k][2]
  ELSE undefined

\* the loop `while ((match = attrRegex.exec(line)))` from lastIndex = from - 1
RECURSIVE execAttrs(_, _, _)
execAttrs(line, from, attrs) ==
  IF \E p \in from..Len(line) : MatchesAt(line, p)
  THEN LET p == CHOOSE x \in from..Len(line) :
                  MatchesAt(line, x) /\ \A y \in from..(x - 1) : ~MatchesAt(line, y)
           e == KeyEnd(line, p)
           c == QuoteAt(line, e + 2)
       IN  execAttrs(line, c + 1,
                     attrsSet(attrs, SubSeq(line, p, e - 1), SubSeq(line, e + 2, c - 1)))
  ELSE attrs

\* line.split(',').pop(): the text after the last comma, the whole line
\* when it has no comma
lastCommaPart(line) ==
  IF \E k \in 1..Len(line) : line[k] = ","
  THEN LET k == CHOOSE x \in 1..Len(line) :
                  line[x] = "," /\ \A y \in (x + 1)..Len(line) : line[y] # ","
       IN  SubSeq(line, k + 1, Len(line))
  ELSE line

channelName(line) == trim(lastCommaPart(line))

\* a || b for a string-or-undefined a
orElse(a, b) == IF a = undefined \/ a = <<>> THEN b ELSE a

GROUP_TITLE == <<"g","r","o","u","p","-","t","i","t","l","e">>

GROUP == <<"g","r","o","u","p">>

TVG_LOGO == <<"t","v","g","-","l","o","g","o">>

\* the scan looking ahead without advancing the loop index
RECURSIVE scanUrl_NoAdvance(_, _)
scanUrl_NoAdvance(lines, i) ==
  LET found == {j \in (i + 1)..Len(lines) :
                  trim(lines[j]) # <<>> /\ trim(lines[j])[1] # "#"}
  IN  IF found = {} THEN [i |-> i, url |-> <<>>]
      ELSE [i |-> i, url |-> trim(lines[CHOOSE j \in found : \A m \in found : j <= m])]

\* the forward scan for the URL from marker index i (1-based): the index
\* the scan stops at and the url found ('' when the input ends first)
RECURSIVE scanUrl(_, _)
scanUrl(lines, i) ==
  IF i + 1 <= Len(lines)
  THEN LET maybe == trim(lines[i + 1])
       IN  IF maybe # <<>> /\ ~startsWith(maybe, <<"#">>)
           THEN [i |-> i + 1, url |-> maybe]
           ELSE scanUrl(lines, i + 1)
  ELSE [i |-> i, url |-> <<>>]

\* the check `if (!url) continue` left out
urlFound_NoCheck(url) == TRUE

\* `if (!url) continue` negated: the record is pushed
urlFound(url) == url # <<>>

makeChannel(line, url) ==
  LET attrs == execAttrs(line, 1, <<>>)
  IN  [name  |-> channelName(line),
       url   |-> url,
       group |-> orElse(attrsGet(attrs, GROUP_TITLE), orElse(attrsGet(attrs, GROUP), undefined)),
       logo  |-> orElse(attrsGet(attrs, TVG_LOGO), undefined),
       attrs |-> attrs]

\* the for loop of parseM3U from index i (1-based) with the channels so far
RECURSIVE parseFrom(_, _, _)
parseFrom(lines, i, channels) ==
  IF i > Len(lines) THEN channels
  ELSE LET line == trim(lines[i])
       IN  IF line = <<>> \/ ~startsWith(line, EXTINF)
           THEN parseFrom(lines, i + 1, channels)
           ELSE LET s == scanUrl(lines, i)
                IN  IF urlFound(s.url)
                    THEN parseFrom(lines, s.i + 1, Append(channels, makeChannel(line, s.url)))
                    ELSE parseFrom(lines, s.i + 1, channels)

parseM3U(text) == parseFrom(text, 1, <<>>)

\* ------------------------------------------------------------------------
\* computeGroups

ALL == <<"A","l","l">>

\* new Set<string>() filled by all.forEach(c => c.group && set.add(c.group)),
\* in insertion order
RECURSIVE groupSet(_, _)
groupSet(chs, set) ==
  IF chs = <<>> THEN set
  ELSE LET g == Head(chs).group
       IN  groupSet(Tail(chs),
                    IF g # undefined /\ g # <<>> /\ g \notin Range(set)
                    THEN Append(set, g) ELSE set)

\* primary collation order of the characters used (case folded): white
\* space, punctuation, digits, letters
PrimaryOrder ==
  <<"\t", "\r", " ", "_", "-", ",", ":", ".", "\"", "/", "#", "=">> \o Digits \o LowerCase

primaryKey(s) == [k \in 1..Len(s) |-> IndexIn(PrimaryOrder, lowerChar(s[k]))]

\* case level: a lower-case letter sorts before its upper-case form
tertiaryKey(s) == [k \in 1..Len(s) |-> IF s[k] \in Range(UpperCase) THEN 1 ELSE 0]

RECURSIVE lexCompare(_, _)
lexCompare(x, y) ==
  IF x = <<>> /\ y = <<>> THEN 0
  ELSE IF x = <<>> THEN 0 - 1
  ELSE IF y = <<>> THEN 1
  ELSE IF Head(x) < Head(y) THEN 0 - 1
  ELSE IF Head(x) > Head(y) THEN 1
  ELSE lexCompare(Tail(x), Tail(y))

\* a.localeCompare(b): negative, zero or positive
localeCompare(a, b) ==
  LET p == lexCompare(primaryKey(a), primaryKey(b))
  IN  IF p # 0 THEN p ELSE lexCompare(tertiaryKey(a), tertiaryKey(b))

\* x placed after every element that does not compare greater (stable)
RECURSIVE insertSorted(_, _)
insertSorted(sorted, x) ==
  IF sorted = <<>> THEN <<x>>
  ELSE IF localeCompare(Head(sorted), x) <= 0
  THEN <<Head(sorted)>> \o insertSorted(Tail(sorted), x)
  ELSE <<x>> \o sorted

\* arr.sort((a, b) => a.localeCompare(b))
RECURSIVE sortLabels(_)
sortLabels(arr) ==
  IF arr = <<>> THEN <<>>
  ELSE insertSorted(sortLabels(SubSeq(arr, 1, Len(arr) - 1)), arr[Len(arr)])

computeGroups(chs) == <<ALL>> \o sortLabels(groupSet(chs, <<>>))

\* ------------------------------------------------------------------------
\* applyFilter

\* the query lower-cased but not trimmed
filterQuery_NoTrim(value) == toLowerCase(orElse(value, <<>>))

\* q: the search box value, trimmed and lower-cased
filterQuery(value) == toLowerCase(trim(orElse(value, <<>>)))

\* g: the label at groupIdx, 'All' when there is none
filterGroup(gs, gi) == orElse(jsIndex(gs, gi), ALL)

inGroup(c, g) ==
  g = ALL \/ (c.group # undefined /\ toLowerCase(c.group) = toLowerCase(g))

channelText(c) == toLowerCase(c.name \o <<" ">> \o orElse(c.group, <<>>))

\* the query ignored by the filter
queryMatches_Ignored(text, q) == TRUE

queryMatches(text, q) == q = <<>> \/ includes(text, q)

filterChannels(chs, value, gs, gi) ==
  LET q == filterQuery(value)
      g == filterGroup(gs, gi)
      keep(c) == inGroup(c, g) /\ queryMatches(channelText(c), q)
  IN  SelectSeq(chs, keep)

\* ------------------------------------------------------------------------
\* Inputs: physical lines of playlist documents, of the shape
\* #EXTINF:-1 attr1="..." attr2="...", Name  followed by a locator line

\* #EXTINF:-1 key="value",name
Marker(key, value, name) ==
  EXTINF \o <<":", "-", "1", " ">> \o key \o <<"=", "\"">> \o value \o <<"\"", ",">> \o name

News == <<"N","e","w","s">>

LowerNews == <<"n","e","w","s">>

\* "  news": a query with leading white space
SpacedNews == <<" ", " ">> \o LowerNews

Sport == <<"S","p","o","r","t">>

\* #EXTINF:-1 group-title="News",ACME News
MarkerNews == Marker(GROUP_TITLE, News, <<"A","C","M","E"," ","N","e","w","s">>)

\* #EXTINF:-1 group-title="news",tv
MarkerLowerNews == Marker(GROUP_TITLE, LowerNews, <<"t","v">>)

\* #EXTINF:-1 group="Sport",Goal
MarkerSport == Marker(GROUP, Sport, <<"G","o","a","l">>)

\* #EXTINF:-1 group-title="All",One
MarkerAll == Marker(GROUP_TITLE, ALL, <<"O","n","e">>)

\* #EXTINF:-1,Jazz FM
MarkerPlain == EXTINF \o <<":", "-", "1", ",", "J","a","z","z"," ","F","M">>

\* #EXTINF:-1 group="a" group="b",x,y
MarkerDup ==
  EXTINF \o <<":", "-", "1", " ">> \o GROUP \o <<"=", "\"", "a", "\"", " ">>
         \o GROUP \o <<"=", "\"", "b", "\"", ",", "x", ",", "y">>

\* "  #EXTINF:-1 radio" (indented, no comma)
MarkerNoComma == <<" ", " ">> \o EXTINF \o <<":", "-", "1", " ", "r","a","d","i","o">>

Comment == <<"#","E","X","T","M","3","U">>

BlankLine == <<>>

SpaceLine == <<" ", "\t">>

Url1 == <<"h",":","/","1">>

\* " h:/2 " (surrounded by white space)
Url2 == <<" ","h",":","/","2"," ">>

Url3 == <<"h",":","/","3">>

\* the documents the playlist source may serve
TextEmpty == <<BlankLine>>

\* groups News, Sport and a channel with no group
TextA == <<Comment, MarkerNews, Url1, MarkerSport, Url2, MarkerPlain, Url3>>

\* a group labelled "All" and the groups "news" and "News"
TextC == <<MarkerAll, Url1, BlankLine, MarkerLowerNews, Comment, Url2, MarkerNews, Url3>>

Playlists == {TextEmpty, TextA, TextC}

\* the values the search box may take
Queries == {<<>>, SpacedNews}

\* the lines parser inputs are built from
Lines == {BlankLine, SpaceLine, Comment, Url1, Url2,
          MarkerNews, MarkerPlain, MarkerNoComma, MarkerDup}

\* most reload requests (the initial load included) in one run
MaxReloads == 2

\* most physical lines in a parser input
MaxLines == 3

Texts == UNION {[1..n -> Lines] : n \in 1..MaxLines}

\* ------------------------------------------------------------------------
\* State

VARIABLES
  all,          \* let all: Channel[]
  filtered,     \* let filtered: Channel[]
  groups,       \* let groups: string[]
  groupIdx,     \* let groupIdx (a number, possibly NaN)
  searchValue,  \* search.getValue()
  selected,     \* list.getScroll(): the list widget's selected index
  header,       \* the group label the header shows
  footer,       \* the status message
  pending,      \* the loadPlaylist calls suspended at `await fetchText`
  reqCount,     \* number of loadPlaylist calls made so far
  appliedReq,   \* the loadPlaylist call that last assigned `all` (0: none)
  lastEvent,    \* the handler that ran last
  stay,         \* STAY: --stay was given
  screen,       \* "open" or "destroyed"
  process,      \* "running", "exited" or "crashed"
  child,        \* the spawned player: "none", "foreground" or "detached"
  played,       \* the url last passed to spawn (undefined: none yet)
  text,         \* parser input
  channels,     \* parser output
  parserPc      \* "idle", "input" or "done"

uiVars == <<all, filtered, groups, groupIdx, searchValue, selected, header, footer,
            pending, reqCount, appliedReq, lastEvent>>

playerVars == <<stay, screen, process, child, played>>

parserVars == <<text, channels, parserPc>>

vars == <<all, filtered, groups, groupIdx, searchValue, selected, header, footer,
          pending, reqCount, appliedReq, lastEvent, stay, screen, process, child, played,
          text, channels, parserPc>>

\* the header before the first applyFilter shows no group label
NoGroupLabel == <<"no group label">>

StatusDownloading == [msg |-> "Downloading playlist"]

StatusLoaded(n, g) == [msg |-> "Loaded", channels |-> n, groups |-> g]

StatusFetchFailed == [msg |-> "Failed to download playlist", red |-> TRUE]

StatusNoChannels == [msg |-> "No channels found in playlist.", red |-> TRUE]

StatusPlaying(name) == [msg |-> "Playing", name |-> name]

StatusLaunched == [msg |-> "Launched mpv in background."]

StatusMpvNotFound == [msg |-> "mpv not found.", red |-> TRUE]

\* module evaluation: the state declarations, then the initial load has
\* called loadPlaylist and is suspended at its fetch
Init ==
  /\ all = <<>>
  /\ filtered = <<>>
  /\ groups = <<>>
  /\ groupIdx = Num(0)
  /\ searchValue = <<>>
  /\ selected = 0
  /\ header = NoGroupLabel
  /\ footer = StatusDownloading
  /\ pending = {1}
  /\ reqCount = 1
  /\ appliedReq = 0
  /\ lastEvent = "start"
  /\ stay \in BOOLEAN
  /\ screen = "open"
  /\ process = "running"
  /\ child = "none"
  /\ played = undefined
  /\ text = <<BlankLine>>
  /\ channels = <<>>
  /\ parserPc = "idle"

\* the terminal UI takes input: the process runs and the screen is not destroyed
Interactive == process = "running" /\ screen = "open"

\* applyFilter() without list.select(0)
applyFilter_NoSelect(chs, value, gs, gi) ==
  /\ filtered' = filterChannels(chs, value, gs, gi)
  /\ selected' = selected
  /\ header' = jsIndex(gs, gi)

\* applyFilter() on the given (possibly primed) state
applyFilter(chs, value, gs, gi) ==
  /\ filtered' = filterChannels(chs, value, gs, gi)
  /\ selected' = 0
  /\ header' = jsIndex(gs, gi)

\* groupIdx after Tab
nextGroupIdx(gi, gs) == jsMod(jsAdd(gi, Num(1)), Num(Len(gs)))

\* groupIdx after Shift+Tab
prevGroupIdx(gi, gs) == jsMod(jsAdd(jsAdd(gi, Num(0 - 1)), Num(Len(gs))), Num(Len(gs)))

\* screen.key(['tab'])
KeyTab ==
  /\ Interactive
  /\ groupIdx' = nextGroupIdx(groupIdx, groups)
  /\ applyFilter(all, searchValue, groups, groupIdx')
  /\ lastEvent' = "tab"
  /\ UNCHANGED <<all, groups, searchValue, footer, pending, reqCount, appliedReq>>
  /\ UNCHANGED playerVars
  /\ UNCHANGED parserVars

\* screen.key(['S-tab'])
KeyShiftTab ==
  /\ Interactive
  /\ groupIdx' = prevGroupIdx(groupIdx, groups)
  /\ applyFilter(all, searchValue, groups, groupIdx')
  /\ lastEvent' = "S-tab"
  /\ UNCHANGED <<all, groups, searchValue, footer, pending, reqCount, appliedReq>>
  /\ UNCHANGED playerVars
  /\ UNCHANGED parserVars

\* search.on('keypress') / search.on('submit'): the box holds value v and
\* applyFilter runs
SearchEdit(v) ==
  /\ Interactive
  /\ searchValue' = v
  /\ applyFilter(all, v, groups, groupIdx)
  /\ lastEvent' = "search"
  /\ UNCHANGED <<all, groups, groupIdx, footer, pending, reqCount, appliedReq>>
  /\ UNCHANGED playerVars
  /\ UNCHANGED parserVars

\* the list widget moves its selection to item k
SelectItem(k) ==
  /\ Interactive
  /\ k \in 0..(Len(filtered) - 1)
  /\ k # selected
  /\ selected' = k
  /\ lastEvent' = "select"
  /\ UNCHANGED <<all, filtered, groups, groupIdx, searchValue, header, footer,
                 pending, reqCount, appliedReq>>
  /\ UNCHANGED playerVars
  /\ UNCHANGED parserVars

\* a reload request that clears the list while the fetch is pending
KeyReload_Clears ==
  /\ Interactive
  /\ reqCount < MaxReloads
  /\ reqCount' = reqCount + 1
  /\ pending' = pending \cup {reqCount + 1}
  /\ footer' = StatusDownloading
  /\ lastEvent' = "reload"
  /\ all' = <<>>
  /\ filtered' = <<>>
  /\ UNCHANGED <<groups, groupIdx, searchValue, selected, header, appliedReq>>
  /\ UNCHANGED playerVars
  /\ UNCHANGED parserVars

\* screen.key(['r']): loadPlaylist runs up to `await fetchText`
KeyReload ==
  /\ Interactive
  /\ reqCount < MaxReloads
  /\ reqCount' = reqCount + 1
  /\ pending' = pending \cup {reqCount + 1}
  /\ footer' = StatusDownloading
  /\ lastEvent' = "reload"
  /\ UNCHANGED <<all, filtered, groups, groupIdx, searchValue, selected, header, appliedReq>>
  /\ UNCHANGED playerVars
  /\ UNCHANGED parserVars

\* a failed fetch that starts the next loadPlaylist by itself
FetchFail_Retry(id) ==
  /\ process = "running"
  /\ id \in pending
  /\ IF reqCount < MaxReloads
     THEN reqCount' = reqCount + 1 /\ pending' = (pending \ {id}) \cup {reqCount + 1}
     ELSE reqCount' = reqCount /\ pending' = pending \ {id}
  /\ footer' = StatusFetchFailed
  /\ lastEvent' = "fetchFailed"
  /\ UNCHANGED <<all, filtered, groups, groupIdx, searchValue, selected, header, appliedReq>>
  /\ UNCHANGED playerVars
  /\ UNCHANGED parserVars

\* fetchText of call id throws: the catch block reports it
FetchFail(id) ==
  /\ process = "running"
  /\ id \in pending
  /\ pending' = pending \ {id}
  /\ footer' = StatusFetchFailed
  /\ lastEvent' = "fetchFailed"
  /\ UNCHANGED <<all, filtered, groups, groupIdx, searchValue, selected, header,
                 reqCount, appliedReq>>
  /\ UNCHANGED playerVars
  /\ UNCHANGED parserVars

\* fetchText of call id resolves with document t: the rest of the try block
FetchDone(id, t) ==
  /\ process = "running"
  /\ id \in pending
  /\ pending' = pending \ {id}
  /\ all' = parseM3U(t)
  /\ appliedReq' = id
  /\ IF Len(all') = 0
     THEN /\ footer' = StatusNoChannels
          /\ lastEvent' = "noChannels"
          /\ UNCHANGED <<filtered, groups, selected, header>>
     ELSE /\ groups' = computeGroups(all')
          /\ footer' = StatusLoaded(Len(all'), Len(groups') - 1)
          /\ applyFilter(all', searchValue, groups', groupIdx)
          /\ lastEvent' = "loaded"
  /\ UNCHANGED <<groupIdx, searchValue, reqCount>>
  /\ UNCHANGED playerVars
  /\ UNCHANGED parserVars

\* `const c = filtered[idx]; if (!c) return;` negated: an entry is selected
hasSelection(flt, idx) == idx >= 0 /\ idx < Len(flt)

\* the url of the first visible entry, whatever the selection
selectionUrl_First(flt, idx) == flt[1].url

\* c.url of the selected entry
selectionUrl(flt, idx) == flt[idx + 1].url

\* list.key(['enter']) with playInMpv; mpvOk is the outcome of the
\* `--version` probe of ensureMpvAvailable
KeyEnter(mpvOk) ==
  /\ Interactive
  /\ lastEvent' = "enter"
  /\ IF ~hasSelection(filtered, selected)
     THEN UNCHANGED <<footer, screen, child, played>>
     ELSE IF ~mpvOk
     THEN /\ footer' = StatusMpvNotFound
          /\ UNCHANGED <<screen, child, played>>
     ELSE IF ~stay
     THEN /\ footer' = StatusPlaying(filtered[selected + 1].name)
          /\ screen' = "destroyed"
          /\ child' = "foreground"
          /\ played' = selectionUrl(filtered, selected)
     ELSE /\ footer' = StatusLaunched
          /\ child' = "detached"
          /\ played' = selectionUrl(filtered, selected)
          /\ UNCHANGED screen
  /\ UNCHANGED <<all, filtered, groups, groupIdx, searchValue, selected, header,
                 pending, reqCount, appliedReq, stay, process>>
  /\ UNCHANGED parserVars

\* the foreground player exits: child.on('exit', code => process.exit(code ?? 0))
ChildExit ==
  /\ process = "running"
  /\ child = "foreground"
  /\ process' = "exited"
  /\ lastEvent' = "childExit"
  /\ UNCHANGED <<all, filtered, groups, groupIdx, searchValue, selected, header, footer,
                 pending, reqCount, appliedReq, stay, screen, child, played>>
  /\ UNCHANGED parserVars

\* the spawned player fails to start: the child emits 'error', for which
\* neither spawn call registers a listener, so the event is thrown as an
\* uncaught exception
ChildError ==
  /\ process = "running"
  /\ child # "none"
  /\ process' = "crashed"
  /\ child' = "none"
  /\ lastEvent' = "childError"
  /\ UNCHANGED <<all, filtered, groups, groupIdx, searchValue, selected, header, footer,
                 pending, reqCount, appliedReq, stay, screen, played>>
  /\ UNCHANGED parserVars

\* screen.key(['q', 'C-c', 'escape'])
KeyQuit ==
  /\ Interactive
  /\ process' = "exited"
  /\ lastEvent' = "quit"
  /\ UNCHANGED <<all, filtered, groups, groupIdx, searchValue, selected, header, footer,
                 pending, reqCount, appliedReq, stay, screen, child, played>>
  /\ UNCHANGED parserVars

Next ==
  \/ KeyTab
  \/ KeyShiftTab
  \/ \E v \in Queries : SearchEdit(v)
  \/ \E k \in 0..2 : SelectItem(k)
  \/ KeyReload
  \/ \E id \in 1..MaxReloads : FetchFail(id)
  \/ \E id \in 1..MaxReloads : \E t \in Playlists : FetchDone(id, t)
  \/ \E mpvOk \in BOOLEAN : KeyEnter(mpvOk)
  \/ ChildExit
  \/ ChildError
  \/ KeyQuit

Spec == Init /\ [][Next]_vars

\* ------------------------------------------------------------------------
\* The parser on its own: every text of at most MaxLines lines

InitParse ==
  /\ all = <<>>
  /\ filtered = <<>>
  /\ groups = <<>>
  /\ groupIdx = Num(0)
  /\ searchValue = <<>>
  /\ selected = 0
  /\ header = NoGroupLabel
  /\ footer = StatusDownloading
  /\ pending = {}
  /\ reqCount = 0
  /\ appliedReq = 0
  /\ lastEvent = "start"
  /\ stay = FALSE
  /\ screen = "open"
  /\ process = "running"
  /\ child = "none"
  /\ played = undefined
  /\ text \in Texts
  /\ channels = <<>>
  /\ parserPc = "input"

Parse ==
  /\ parserPc = "input"
  /\ channels' = parseM3U(text)
  /\ parserPc' = "done"
  /\ UNCHANGED text
  /\ UNCHANGED uiVars
  /\ UNCHANGED playerVars

NextParse == Parse

SpecParse == InitParse /\ [][NextParse]_vars

\* ------------------------------------------------------------------------
\* Properties

\* C1: last-requested-wins for reloads.  A fetch that completes after a
\* newer reload was requested is never applied: whenever a loadPlaylist call
\* assigns the Catalog, it is the most recently requested call.  (Then, once
\* no fetch is pending, the Catalog is the one of the latest request that
\* delivered a document.)
C1_StaleFetchNeverApplied ==
  [][appliedReq' # appliedReq => appliedReq' = reqCount']_vars

\* C2: at most one reload (fetch + parse + Catalog replacement) is in flight
\* in every reachable state, the initial load included.
C2_AtMostOneReloadInFlight == Cardinality(pending) <= 1

\* C3: when a reload fails (the fetch fails, or the document parses to zero
\* entries) the Catalog held before the reload is unchanged after the error
\* is reported.
C3_FailedReloadKeepsCatalog ==
  [][lastEvent' \in {"fetchFailed", "noChannels"} => all' = all]_vars

\* C4: in every state between events the visible set is the filter applied
\* to the current Catalog, query and active group, and GroupList is the
\* groups derived from the current Catalog.
C4_ViewConsistent ==
  /\ filtered = filterChannels(all, searchValue, groups, groupIdx)
  /\ groups = computeGroups(all)

\* C5: on completion of a successful reload the active group is decided by
\* label: the label active before the reload stays active if the new
\* GroupList has it, otherwise the active group is "All" at index 0.
C5_ActiveGroupKeptByLabel ==
  [][lastEvent' = "loaded" /\ jsIndex(groups, groupIdx) # undefined =>
       LET label == jsIndex(groups, groupIdx)
       IN  IF label \in Range(groups')
           THEN jsIndex(groups', groupIdx') = label
           ELSE groupIdx' = Num(0)]_vars

\* the entries of chs in group g (any group for "All") whose name and group
\* contain q, compared without regard to case
VisibleBy(chs, q, g) ==
  LET lq == toLowerCase(q)
      shown(c) ==
        /\ g = ALL \/ (c.group # undefined /\ toLowerCase(c.group) = toLowerCase(g))
        /\ \/ lq = <<>>
           \/ LET t == toLowerCase(c.name \o <<" ">> \o (IF c.group = undefined THEN <<>> ELSE c.group))
              IN  \E k \in 0..(Len(t) - Len(lq)) : SubSeq(t, k + 1, k + Len(lq)) = lq
  IN  SelectSeq(chs, shown)

C7_GroupListWellFormed ==
  /\ Len(groups) >= 1
  /\ groups[1] = ALL
  /\ \A i, j \in 1..Len(groups) : i < j => groups[i] # groups[j]
  /\ \A i \in 2..(Len(groups) - 1) : localeCompare(groups[i], groups[i + 1]) < 0
  /\ {groups[i] : i \in 2..Len(groups)}
       = {all[k].group : k \in {n \in 1..Len(all) : all[n].group # undefined}}

\* groupIdx after n forward cycles
RECURSIVE tabTimes(_, _, _)
tabTimes(gi, gs, n) == IF n = 0 THEN gi ELSE tabTimes(nextGroupIdx(gi, gs), gs, n - 1)

\* C8: from any reachable state, cycling forward len(GroupList) times
\* returns the active index to its value, and a forward cycle followed by a
\* backward cycle leaves it unchanged.
C8_CyclingIsRotation ==
  /\ tabTimes(groupIdx, groups, Len(groups)) = groupIdx
  /\ prevGroupIdx(nextGroupIdx(groupIdx, groups), groups) = groupIdx

\* C9: cycling backward from index 0 sets the active index to
\* len(GroupList)-1, and the index is never negative.
C9_BackwardFromAllWraps ==
  /\ [][lastEvent' = "S-tab" /\ groupIdx = Num(0) => groupIdx' = Num(Len(groups) - 1)]_vars
  /\ [](groupIdx.nan \/ groupIdx.val >= 0)

\* a marker line: after trimming it starts with #EXTINF
IsMarkerLine(l) == startsWith(trim(l), EXTINF)

\* a locator line: after trimming it is non-empty and does not start with #
IsLocatorLine(l) == trim(l) # <<>> /\ trim(l)[1] # "#"

NoLocatorAfter(t, i) == \A j \in (i + 1)..Len(t) : ~IsLocatorLine(t[j])

\* C10: every record the parser emits has a non-empty url, and a marker line
\* with no locator line between it and the end of input yields no record:
\* the output is that of the input cut before that marker.
C10_UrlNonEmpty ==
  parserPc = "done" =>
    /\ \A k \in 1..Len(channels) : channels[k].url # <<>>
    /\ \A i \in 1..Len(text) :
         IsMarkerLine(text[i]) /\ NoLocatorAfter(text, i)
           => channels = parseM3U(SubSeq(text, 1, i - 1))

\* a parsed text with a record and, after it, a marker that has no locator
C10_Witness ==
  /\ parserPc = "done"
  /\ channels # <<>>
  /\ \E i \in 1..Len(text) : IsMarkerLine(text[i]) /\ NoLocatorAfter(text, i)

\* ------------------------------------------------------------------------
\* Properties of the parser, stated on the lines of the input

\* marker i is reached by the for loop: no earlier marker's URL scan passes
\* over it (no marker before it without a locator line in between)
ScannedAsMarker(t, i) ==
  /\ IsMarkerLine(t[i])
  /\ ~\E k \in 1..(i - 1) :
        IsMarkerLine(t[k]) /\ \A j \in (k + 1)..(i - 1) : ~IsLocatorLine(t[j])

\* index of the first locator line after line i
FirstLocatorAfter(t, i) ==
  CHOOSE j \in (i + 1)..Len(t) :
    IsLocatorLine(t[j]) /\ \A m \in (i + 1)..(j - 1) : ~IsLocatorLine(t[m])

\* the markers that own a record: reached by the loop and followed by a locator
RecordMarkers(t) ==
  {i \in 1..Len(t) : ScannedAsMarker(t, i) /\ ~NoLocatorAfter(t, i)}

\* a finite set of integers in ascending order
RECURSIVE Ascending(_)
Ascending(S) ==
  IF S = {} THEN <<>>
  ELSE LET m == CHOOSE x \in S : \A y \in S : x <= y
       IN  <<m>> \o Ascending(S \ {m})

HasComma(l) == \E k \in 1..Len(l) : l[k] = ","

\* the text after the last comma of l
AfterLastComma(l) ==
  LET k == CHOOSE x \in 1..Len(l) : l[x] = "," /\ \A y \in (x + 1)..Len(l) : l[y] # ","
  IN  SubSeq(l, k + 1, Len(l))

\* C11: the record's name is the text after the last comma on the marker
\* line, trimmed; if the marker line contains no comma, the name is the
\* empty string.
C11_NameAfterLastComma ==
  parserPc = "done" =>
    LET ms == Ascending(RecordMarkers(text))
    IN  /\ Len(channels) = Len(ms)
        /\ \A k \in 1..Len(ms) :
             channels[k].name = IF HasComma(text[ms[k]])
                                THEN trim(AfterLastComma(text[ms[k]]))
                                ELSE <<>>

\* the key="value" pairs of a line in the order attrRegex finds them
RECURSIVE AttrOccurrences(_, _)
AttrOccurrences(line, from) ==
  IF \E p \in from..Len(line) : MatchesAt(line, p)
  THEN LET p == CHOOSE x \in from..Len(line) :
                  MatchesAt(line, x) /\ \A y \in from..(x - 1) : ~MatchesAt(line, y)
           e == KeyEnd(line, p)
           c == QuoteAt(line, e + 2)
       IN  <<<<SubSeq(line, p, e - 1), SubSeq(line, e + 2, c - 1)>>>>
             \o AttrOccurrences(line, c + 1)
  ELSE <<>>

\* C18: when a marker line carries the same attribute key more than once,
\* the record's attribute mapping holds the value of the last occurrence,
\* and each key appears once in the mapping.
C18_LastAttributeWins ==
  parserPc = "done" =>
    LET ms == Ascending(RecordMarkers(text))
    IN  \A k \in 1..Len(channels) :
          LET occ == AttrOccurrences(trim(text[ms[k]]), 1)
              attrs == channels[k].attrs
          IN  /\ \A a, b \in 1..Len(attrs) : attrs[a][1] = attrs[b][1] => a = b
              /\ {attrs[a][1] : a \in 1..Len(attrs)} = {occ[n][1] : n \in 1..Len(occ)}
              /\ \A a \in 1..Len(attrs) :
                   LET last == CHOOSE n \in 1..Len(occ) :
                                 /\ occ[n][1] = attrs[a][1]
                                 /\ \A m \in (n + 1)..Len(occ) : occ[m][1] # attrs[a][1]
                   IN  attrs[a][2] = occ[last][2]

\* a record parsed from a marker line that gives one key twice
C18_Witness ==
  /\ parserPc = "done"
  /\ \E k \in 1..Len(channels) :
       /\ channels[k].attrs = << <<GROUP, <<"b">>>> >>
       /\ Len(AttrOccurrences(trim(text[Ascending(RecordMarkers(text))[k]]), 1)) = 2

FilterApplied == lastEvent \in {"tab", "S-tab", "search", "loaded"}

\* C12 as stated: the visible set is the Catalog entries, in order, in the
\* active group ("All": any) that contain the query as given, compared
\* without regard to case, in name + " " + group.
C12_VisibleByQueryAsGiven ==
  FilterApplied =>
    filtered = VisibleBy(all, searchValue, filterGroup(groups, groupIdx))

\* C12 amended: as above with the query trimmed of surrounding white space
\* before the comparison; the active group is the label at the active
\* index, "All" when the index names no label.
C12_VisibleByTrimmedQuery ==
  FilterApplied =>
    filtered = VisibleBy(all, trim(searchValue), filterGroup(groups, groupIdx))

\* the query "  news" with the group "news" active shows the entries of the
\* groups "news" and "News" of a three-entry Catalog
C12_Witness ==
  /\ lastEvent = "search"
  /\ searchValue = SpacedNews
  /\ filterGroup(groups, groupIdx) = LowerNews
  /\ Len(all) = 3
  /\ Len(filtered) = 2
  /\ filtered[2].group = News

\* C13: activating the selection when the visible set is empty changes
\* nothing (no launch, no status change); otherwise a url handed to the
\* player is the url of visibleChannels[selectionIndex] at that time.
C13_ActivateSelection ==
  [][lastEvent' = "enter" =>
       IF filtered = <<>>
       THEN UNCHANGED <<all, filtered, groups, groupIdx, searchValue, selected, header,
                        footer, pending, reqCount, appliedReq, stay, screen, process,
                        child, played>>
       ELSE \/ played' = filtered[selected + 1].url /\ child' # "none"
            \/ footer' = StatusMpvNotFound /\ UNCHANGED <<played, child, screen>>]_vars

\* the second visible entry was activated and its url handed to the player
C13_Witness ==
  /\ lastEvent = "enter"
  /\ selected = 1
  /\ Len(filtered) >= 2
  /\ child # "none"
  /\ played = filtered[2].url
  /\ played # filtered[1].url

\* C14: a player launch failure (binary not found, or failed to start) is
\* reported as a status message and leaves the TUI open and the process
\* running, with or without --stay.
C14_LaunchFailureKeepsTui ==
  [][(lastEvent' = "enter" /\ footer' = StatusMpvNotFound /\ footer # StatusMpvNotFound)
       \/ lastEvent' = "childError"
     => /\ footer' = StatusMpvNotFound
        /\ screen' = "open"
        /\ process' = "running"]_vars

C16_SelectionInRange ==
  /\ filtered = <<>> \/ selected \in 0..(Len(filtered) - 1)
  /\ FilterApplied => selected = 0

\* a group cycle run while reload 2 was pending that leaves one entry
\* visible, with the selection reset onto it
C16_Witness ==
  /\ lastEvent = "tab"
  /\ reqCount = 2
  /\ Len(all) = 3
  /\ Len(filtered) = 1
  /\ selected = 0

\* C17: a failed reload is never retried automatically: a load error starts
\* no fetch and leaves the process running; only the reload command starts
\* a fetch.
C17_NoAutomaticRetry ==
  [][/\ lastEvent' \in {"fetchFailed", "noChannels"} =>
          /\ reqCount' = reqCount
          /\ pending' \subseteq pending
          /\ process' = "running"
     /\ reqCount' # reqCount \/ ~(pending' \subseteq pending) => lastEvent' = "reload"]_vars

\* a load error with no fetch left pending
C17_Witness ==
  /\ lastEvent \in {"fetchFailed", "noChannels"}
  /\ footer \in {StatusFetchFailed, StatusNoChannels}
  /\ pending = {}
  /\ process = "running"

\* C19: in every reachable state groupIdx is an integer with
\* 0 <= groupIdx < len(GroupList), so the header shows the label the
\* visible set is filtered by.
C19_GroupIdxInRange ==
  /\ ~groupIdx.nan
  /\ groupIdx.val >= 0
  /\ groupIdx.val < Len(groups)

====
